---- MODULE Spec2Model ----
(***************************************************************************)
(* A model of the 2D lightmap compositor of assasin8                       *)
(* (src/src/lighting/light.rs, src/src/lighting/types.rs, src/src/main.rs).*)
(*                                                                         *)
(* Numbers.  World coordinates are integer-valued f32 values; quotients    *)
(* are kept as exact fractions [n, d].  A fraction with d = 0 is an IEEE   *)
(* special value: n = 1 is +infinity, n = -1 is -infinity, n = 0 is NaN.   *)
(* On the small integer coordinates used here f32 subtraction is exact and *)
(* f32 division is correctly rounded and monotone, so comparing the exact  *)
(* fractions gives the result of the f32 comparison.  The sign of a zero   *)
(* is not kept: flipping it flips both slab parameters of an axis, which   *)
(* min/max undo.                                                           *)
(***************************************************************************)
EXTENDS Integers, Sequences, FiniteSets, TLC

\* ------------------------------------------------------------------ bounds
MaxLights == 2
MaxOccluders == 2
Grid == 2
MaxIndices == 6
MaxWidth == 66
MaxHeight == 2
MaxNum == 2
MaxBits == 16

\* Largest value of an 8-bit unorm channel (TEXTURE_FORMAT, Rgba8UnormSrgb).
One == 255
\* size_of::<u32>()
u32_size == 4

\* ------------------------------------------------------------- arithmetic
Abs(x) == IF x < 0 THEN -x ELSE x
Sign(x) == IF x > 0 THEN 1 ELSE IF x < 0 THEN -1 ELSE 0

RECURSIVE GCD(_, _)
GCD(a, b) == IF b = 0 THEN a ELSE GCD(b, a % b)

\* The fraction n/d (d # 0) in lowest terms with a positive denominator.
Frac(n, d) ==
    LET g == GCD(Abs(n), Abs(d))
        s == IF d < 0 THEN -1 ELSE 1
    IN  [n |-> (s * n) \div g, d |-> (s * d) \div g]

FInt(k) == [n |-> k, d |-> 1]
FNaN == [n |-> 0, d |-> 0]
FInf(s) == [n |-> s, d |-> 0]
IsNaN(a) == a.d = 0 /\ a.n = 0
IsFinite(a) == a.d > 0

\* f32 "<": false when either operand is NaN.
FLt(a, b) ==
    /\ ~IsNaN(a)
    /\ ~IsNaN(b)
    /\ IF a.d = 0 /\ b.d = 0 THEN a.n < b.n ELSE a.n * b.d < b.n * a.d

\* f32 division of two integer-valued operands: x/0 is +-infinity, 0/0 NaN.
FDivInt(p, q) == IF q = 0 THEN [n |-> Sign(p), d |-> 0] ELSE Frac(p, q)

\* f32 subtraction of finite fractions.
FSub(a, b) == Frac(a.n * b.d - b.n * a.d, a.d * b.d)

SeqsUpTo(S, n) == UNION {[1..k -> S] : k \in 0..n}
\* The lists of at most n distinct elements of S.
DistinctSeqsUpTo(S, n) ==
    {s \in SeqsUpTo(S, n) : \A a, b \in 1..Len(s) : a # b => s[a] # s[b]}

\* ------------------------------------------------------ light.rs: min, max
maxMutNoNaN(a, b) == IF FLt(b, a) THEN a ELSE b
max(a, b) ==
    IF IsNaN(a) THEN b
    ELSE IF IsNaN(b) THEN a
    ELSE IF FLt(b, a) THEN a ELSE b

min(a, b) ==
    IF IsNaN(a) THEN b
    ELSE IF IsNaN(b) THEN a
    ELSE IF FLt(a, b) THEN a ELSE b

max_vec2(a, b) == <<max(a[1], b[1]), max(a[2], b[2])>>
min_vec2(a, b) == <<min(a[1], b[1]), min(a[2], b[2])>>

\* intersect_aabb on integer-valued origin, direction and box corners.
intersect_aabbMutLe(ray_origin, ray_dir, box_min, box_max) ==
    LET t_min == <<FDivInt(box_min[1] - ray_origin[1], ray_dir[1]),
                   FDivInt(box_min[2] - ray_origin[2], ray_dir[2])>>
        t_max == <<FDivInt(box_max[1] - ray_origin[1], ray_dir[1]),
                   FDivInt(box_max[2] - ray_origin[2], ray_dir[2])>>
        t1 == min_vec2(t_min, t_max)
        t2 == max_vec2(t_min, t_max)
        t_near == max(t1[1], t1[2])
        t_far == min(t2[1], t2[2])
    IN  ~FLt(t_far, t_near)

intersect_aabb(ray_origin, ray_dir, box_min, box_max) ==
    LET t_min == <<FDivInt(box_min[1] - ray_origin[1], ray_dir[1]),
                   FDivInt(box_min[2] - ray_origin[2], ray_dir[2])>>
        t_max == <<FDivInt(box_max[1] - ray_origin[1], ray_dir[1]),
                   FDivInt(box_max[2] - ray_origin[2], ray_dir[2])>>
        t1 == min_vec2(t_min, t_max)
        t2 == max_vec2(t_min, t_max)
        t_near == max(t1[1], t1[2])
        t_far == min(t2[1], t2[2])
    IN  FLt(t_near, t_far)


\* ------------------------------------------------- scene and camera inputs
\* LightData {pos, color, intensity}: color components are 0.0 or 1.0, the
\* intensity is kept in 1/One units.
LightChoices ==
    { [pos |-> <<-2, 0>>, color |-> <<1, 0, 0>>, intensity |-> 128],
      [pos |-> <<0, 2>>,  color |-> <<0, 0, 1>>, intensity |-> 255],
      [pos |-> <<0, 0>>,  color |-> <<0, 1, 0>>, intensity |-> 0] }

\* OcclusionData {start, end, visibility}: visibility is a fraction in [0, 1].
OccChoices ==
    { [start |-> <<-1, -1>>, end |-> <<-1, 0>>, visibility |-> FInt(1)],
      [start |-> <<0, 1>>,   end |-> <<1, 1>>,  visibility |-> FInt(0)],
      [start |-> <<-2, 3>>,  end |-> <<-3, 3>>, visibility |-> Frac(1, 2)] }

\* The camera's Transform: translation and a uniform scale (no rotation).
CameraChoices ==
    { [translation |-> <<0, 0>>, scale |-> 1],
      [translation |-> <<1, 0>>, scale |-> 2] }

\* The primary window's size: window.width(), window.height().
WindowChoices == { [width |-> 2, height |-> 2] }

\* What the memory of a texture nothing has written yet may hold.
GarbageChoices == { <<0, 0, 0, 0>>, <<One, One, One, One>> }

\* -------------------------------------------------------------- the state
VARIABLES
    pc,          \* where the frame's CPU code is
    panic,       \* the panic message, "" when none
    hasCamera,   \* a Camera entity exists (main.rs: camera.single())
    hasWindow,   \* a primary window exists
    win,         \* the window
    camera,      \* camera_transform
    lights,      \* &Vec<LightData>
    occlusions,  \* &Vec<OcclusionData>
    garbage,     \* contents of device memory nothing has written
    i,           \* the loop index of `for i in 0..lights.len()`
    op,          \* the `op` variable: Pass A's next load operation
    texture,     \* the `texture` variable: a texture id, 0 before creation
    gpuTex,      \* device textures by id: [written, px]
    encoder,     \* commands recorded in the command encoder
    queue,       \* commands submitted to the queue
    submits,     \* number of queue.submit calls
    gpuPc,       \* number of submitted commands the device has executed
    outBuf,      \* output_buffer: [size, map, data]
    signal,      \* the oneshot channel: "none", "ok" or "err"
    image,       \* image.png: <<>> when not written, else <<pixels>>
    mesh,        \* shadow_caster_to_occlusion_data: the mesh and transform
    extracted,   \* shadow_caster_to_occlusion_data: its result, <<>> before
    args,        \* min / max: the function called and its two operands
    ret          \* min / max: the value returned, <<>> before

vars == <<pc, panic, hasCamera, hasWindow, win, camera, lights, occlusions,
          garbage, i, op, texture, gpuTex, encoder, queue, submits, gpuPc,
          outBuf, signal, image, mesh, extracted, args, ret>>

inputVars == <<hasCamera, hasWindow, win, camera, lights, occlusions, garbage>>
extractVars == <<mesh, extracted, args, ret>>

Baseline == <<One, 0, 0, 0>>

Pixels(w) == (0..(w.width - 1)) \X (0..(w.height - 1))

NoMesh == [vertices |-> <<>>, indices |-> <<>>,
           transform |-> [translation |-> <<0, 0>>, scale |-> 1]]
NoArgs == [f |-> "none"]

InitFrame ==
    /\ pc = "lights"
    /\ panic = ""
    /\ i = 0
    /\ op = "None"
    /\ texture = 0
    /\ gpuTex = <<>>
    /\ encoder = <<>>
    /\ queue = <<>>
    /\ submits = 0
    /\ gpuPc = 0
    /\ outBuf = [size |-> 0, map |-> "none", data |-> <<>>]
    /\ signal = "none"
    /\ image = <<>>

Init ==
    /\ InitFrame
    /\ hasCamera \in BOOLEAN
    /\ hasWindow \in BOOLEAN
    /\ win \in WindowChoices
    /\ camera \in CameraChoices
    /\ lights \in SeqsUpTo(LightChoices, MaxLights)
    /\ occlusions \in DistinctSeqsUpTo(OccChoices, MaxOccluders)
    /\ garbage \in GarbageChoices
    /\ mesh = NoMesh
    /\ extracted = <<>>
    /\ args = NoArgs
    /\ ret = <<>>

\* --------------------------------------------- get_lightmap: the viewport
\* Transform * point for a translation and a uniform scale.
TransformPoint(t, p) ==
    <<t.translation[1] + t.scale * p[1], t.translation[2] + t.scale * p[2]>>

\* window_extents * 0.5 (window sizes are even, so the halves are integers)
HalfExtents(w) == <<w.width \div 2, w.height \div 2>>
bottom_left(cam, w) ==
    TransformPoint(cam, <<0 - HalfExtents(w)[1], 0 - HalfExtents(w)[2]>>)
top_right(cam, w) ==
    TransformPoint(cam, <<0 + HalfExtents(w)[1], 0 + HalfExtents(w)[2]>>)
world_window_size(cam, w) ==
    <<top_right(cam, w)[1] - bottom_left(cam, w)[1],
      top_right(cam, w)[2] - bottom_left(cam, w)[2]>>
camera_pos(cam) == cam.translation

\* (p - camera_pos) / (world_window_size * 0.5)
ToNdcMutNoCamera(p, cam, w) ==
    <<FDivInt(p[1], world_window_size(cam, w)[1] \div 2),
      FDivInt(p[2], world_window_size(cam, w)[2] \div 2)>>
ToNdc(p, cam, w) ==
    <<FDivInt(p[1] - camera_pos(cam)[1], world_window_size(cam, w)[1] \div 2),
      FDivInt(p[2] - camera_pos(cam)[2], world_window_size(cam, w)[2] \div 2)>>

Vertex(x, y, weight, u, v) ==
    [position |-> <<x, y, weight>>, tex_coords |-> <<u, v>>]

\* The cull test of one occluder for one light.
IncludedMutAnd(occlusion, light, cam, w) ==
    LET d1 == <<occlusion.start[1] - light.pos[1], occlusion.start[2] - light.pos[2]>>
        d2 == <<occlusion.end[1] - light.pos[1], occlusion.end[2] - light.pos[2]>>
    IN  /\ intersect_aabb(occlusion.start, d1, bottom_left(cam, w), top_right(cam, w))
        /\ intersect_aabb(occlusion.end, d2, bottom_left(cam, w), top_right(cam, w))
IncludedMutLightOrigin(occlusion, light, cam, w) ==
    LET d1 == <<occlusion.start[1] - light.pos[1], occlusion.start[2] - light.pos[2]>>
        d2 == <<occlusion.end[1] - light.pos[1], occlusion.end[2] - light.pos[2]>>
    IN  \/ intersect_aabb(light.pos, d1, bottom_left(cam, w), top_right(cam, w))
        \/ intersect_aabb(light.pos, d2, bottom_left(cam, w), top_right(cam, w))
Included(occlusion, light, cam, w) ==
    LET d1 == <<occlusion.start[1] - light.pos[1], occlusion.start[2] - light.pos[2]>>
        d2 == <<occlusion.end[1] - light.pos[1], occlusion.end[2] - light.pos[2]>>
    IN  \/ intersect_aabb(occlusion.start, d1, bottom_left(cam, w), top_right(cam, w))
        \/ intersect_aabb(occlusion.end, d2, bottom_left(cam, w), top_right(cam, w))

\* The six vertices pushed for an included occluder.
SkirtMutOrder(occlusion, light, cam, w) ==
    LET occlusion_start == ToNdc(occlusion.start, cam, w)
        occlusion_end == ToNdc(occlusion.end, cam, w)
        light_pos == ToNdc(light.pos, cam, w)
        d1 == <<FSub(occlusion_start[1], light_pos[1]), FSub(occlusion_start[2], light_pos[2])>>
        d2 == <<FSub(occlusion_end[1], light_pos[1]), FSub(occlusion_end[2], light_pos[2])>>
        tc == FSub(FInt(1), occlusion.visibility)
    IN  << Vertex(occlusion_start[1], occlusion_start[2], 1, tc, FInt(0)),
           Vertex(d1[1], d1[2], 0, tc, FInt(0)),
           Vertex(occlusion_end[1], occlusion_end[2], 1, tc, FInt(0)),
           Vertex(occlusion_end[1], occlusion_end[2], 1, tc, FInt(0)),
           Vertex(d2[1], d2[2], 0, tc, FInt(0)),
           Vertex(d1[1], d1[2], 0, tc, FInt(0)) >>
SkirtMutUnitDirection(occlusion, light, cam, w) ==
    LET occlusion_start == ToNdc(occlusion.start, cam, w)
        occlusion_end == ToNdc(occlusion.end, cam, w)
        w1 == <<occlusion.start[1] - light.pos[1], occlusion.start[2] - light.pos[2]>>
        w2 == <<occlusion.end[1] - light.pos[1], occlusion.end[2] - light.pos[2]>>
        d1 == <<FDivInt(w1[1], Abs(w1[1]) + Abs(w1[2])), FDivInt(w1[2], Abs(w1[1]) + Abs(w1[2]))>>
        d2 == <<FDivInt(w2[1], Abs(w2[1]) + Abs(w2[2])), FDivInt(w2[2], Abs(w2[1]) + Abs(w2[2]))>>
        tc == FSub(FInt(1), occlusion.visibility)
    IN  << Vertex(occlusion_start[1], occlusion_start[2], 1, tc, FInt(0)),
           Vertex(d1[1], d1[2], 0, tc, FInt(0)),
           Vertex(occlusion_end[1], occlusion_end[2], 1, tc, FInt(0)),
           Vertex(occlusion_end[1], occlusion_end[2], 1, tc, FInt(0)),
           Vertex(d1[1], d1[2], 0, tc, FInt(0)),
           Vertex(d2[1], d2[2], 0, tc, FInt(0)) >>
Skirt(occlusion, light, cam, w) ==
    LET occlusion_start == ToNdc(occlusion.start, cam, w)
        occlusion_end == ToNdc(occlusion.end, cam, w)
        light_pos == ToNdc(light.pos, cam, w)
        d1 == <<FSub(occlusion_start[1], light_pos[1]), FSub(occlusion_start[2], light_pos[2])>>
        d2 == <<FSub(occlusion_end[1], light_pos[1]), FSub(occlusion_end[2], light_pos[2])>>
        tc == FSub(FInt(1), occlusion.visibility)
    IN  << Vertex(occlusion_start[1], occlusion_start[2], 1, tc, FInt(0)),
           Vertex(d1[1], d1[2], 0, tc, FInt(0)),
           Vertex(occlusion_end[1], occlusion_end[2], 1, tc, FInt(0)),
           Vertex(occlusion_end[1], occlusion_end[2], 1, tc, FInt(0)),
           Vertex(d1[1], d1[2], 0, tc, FInt(0)),
           Vertex(d2[1], d2[2], 0, tc, FInt(0)) >>

\* `verts` after the loop over the occluders, for one light.
RECURSIVE BuildVerts(_, _, _, _)
BuildVerts(occs, light, cam, w) ==
    IF occs = <<>> THEN <<>>
    ELSE LET rest == BuildVerts(SubSeq(occs, 1, Len(occs) - 1), light, cam, w)
             o == occs[Len(occs)]
         IN  IF Included(o, light, cam, w) THEN rest \o Skirt(o, light, cam, w)
             ELSE rest

\* The `last` field of LightUniform for light index idx of count lights.
is_lastMutFirst(idx, count) == IF idx = 0 THEN 1 ELSE 0
is_last(idx, count) == IF idx = count - 1 THEN 1 ELSE 0

\* `for i in 0..lights.len()`: the loop body runs for index idx of count.
LoopContinuesMutSkipLast(idx, count) == idx < count - 1
LoopContinues(idx, count) == idx < count

\* `texture = out_tex`: the texture the next iteration (or the copy) uses.
NextTextureMutKeep(cur, out_tex) == cur
NextTexture(cur, out_tex) == out_tex

\* The load operation of Pass A after the first pass: `op = LoadOp::Load`.
NextOpMutClear(cur) == cur
NextOp(cur) == "Load"

\* The two triangles of the full-viewport quad of Pass B.
QuadVerts ==
    << Vertex(FInt(-1), FInt(-1), 0, FInt(0), FInt(1)),
       Vertex(FInt(1), FInt(-1), 0, FInt(1), FInt(1)),
       Vertex(FInt(1), FInt(1), 0, FInt(1), FInt(0)),
       Vertex(FInt(-1), FInt(-1), 0, FInt(0), FInt(1)),
       Vertex(FInt(1), FInt(1), 0, FInt(1), FInt(0)),
       Vertex(FInt(-1), FInt(1), 0, FInt(0), FInt(0)) >>


\* ------------------------------------------------ the rasterization backend
\* The shaders (assets/shaders/*.wgsl) and the rasterizer are outside the
\* source tree; they are modelled from sections 4.4, 4.5 and 6 of the design.

\* Unnormalised fraction arithmetic, for signs of determinants.
RMul(a, b) == [n |-> a.n * b.n, d |-> a.d * b.d]
RSub(a, b) == [n |-> a.n * b.d - b.n * a.d, d |-> a.d * b.d]
RAdd(a, b) == [n |-> a.n * b.d + b.n * a.d, d |-> a.d * b.d]

\* Sign of the determinant of three homogeneous points <<x, y, w>>.
Det3Sign(A, B, C) ==
    LET m1 == RSub(RMul(B[2], FInt(C[3])), RMul(FInt(B[3]), C[2]))
        m2 == RSub(RMul(B[1], FInt(C[3])), RMul(FInt(B[3]), C[1]))
        m3 == RSub(RMul(B[1], C[2]), RMul(B[2], C[1]))
        det == RAdd(RSub(RMul(A[1], m1), RMul(A[2], m2)), RMul(FInt(A[3]), m3))
    IN  Sign(det.n)

\* The centre of pixel p (row 0 at the top) in normalized device coordinates.
PixelCentre(p, w) ==
    <<Frac(2 * p[1] + 1 - w.width, w.width),
      Frac(w.height - 2 * p[2] - 1, w.height), 1>>

\* The position's third component is the homogeneous weight: weight 0 is a
\* point at infinity.  A pixel is covered when its centre is a non-negative
\* combination of the triangle's three homogeneous vertices.
Covered(A, B, C, P) ==
    LET D == Det3Sign(A, B, C)
    IN  /\ D # 0
        /\ Det3Sign(P, B, C) * D >= 0
        /\ Det3Sign(A, P, C) * D >= 0
        /\ Det3Sign(A, B, P) * D >= 0

\* The shadow-mask fragment: the visibility channel gets the texture
\* coordinate 1 - visibility, as an 8-bit value.
ShadowMaskFragment(v) == (v.tex_coords[1].n * One) \div v.tex_coords[1].d

\* The visibility channel of pixel p after the triangles of the vertex list
\* have been drawn in order over the value r: the last covering triangle wins.
RECURSIVE MaskAfterDraw(_, _, _, _)
MaskAfterDraw(r, verts, p, w) ==
    IF Len(verts) < 3 THEN r
    ELSE LET n == Len(verts) - 3
             A == verts[n + 1]
             B == verts[n + 2]
             C == verts[n + 3]
         IN  IF Covered(A.position, B.position, C.position, PixelCentre(p, w))
             THEN ShadowMaskFragment(A)
             ELSE MaskAfterDraw(r, SubSeq(verts, 1, n), p, w)

\* Pass A's draw on pixel contents px: only the red channel is written.
DrawSkirtsMutGreen(px, verts, w) ==
    [p \in Pixels(w) |->
       <<MaskAfterDraw(px[p][1], verts, p, w), MaskAfterDraw(px[p][1], verts, p, w),
         px[p][3], px[p][4]>>]
DrawSkirts(px, verts, w) ==
    [p \in Pixels(w) |->
       <<MaskAfterDraw(px[p][1], verts, p, w), px[p][2], px[p][3], px[p][4]>>]

Clamp(x) == IF x > One THEN One ELSE x

\* The additive-light fragment: every channel of the sampled texel plus the
\* light's contribution, attenuated by the sampled visibility channel.
AddLightFragment(t, uniform) ==
    LET contribution(c) == (t[1] * uniform.data[c] * uniform.data[4]) \div One
    IN  <<Clamp(t[1] + contribution(1)),
          Clamp(t[2] + contribution(2)),
          Clamp(t[3] + contribution(3)),
          t[4]>>

\* The device executes one recorded command.
Execute(cmd, tex, buf, w) ==
    CASE cmd.kind = "shadow_mask" ->
           LET loaded == IF cmd.load = "Clear" THEN [p \in Pixels(w) |-> Baseline]
                         ELSE tex[cmd.view].px
           IN  [tex |-> [tex EXCEPT ![cmd.view] =
                           [written |-> TRUE, px |-> DrawSkirts(loaded, cmd.verts, w)]],
                buf |-> buf]
      [] cmd.kind = "add_light" ->
           [tex |-> [tex EXCEPT ![cmd.view] =
                       [written |-> TRUE,
                        px |-> [p \in Pixels(w) |->
                                  AddLightFragment(tex[cmd.bound].px[p], cmd.uniform)]]],
            buf |-> buf]
      [] cmd.kind = "copy_texture_to_buffer" ->
           [tex |-> tex, buf |-> [buf EXCEPT !.data = <<tex[cmd.texture].px>>]]

GpuExecute ==
    /\ gpuPc < Len(queue)
    /\ LET r == Execute(queue[gpuPc + 1], gpuTex, outBuf, win)
       IN  /\ gpuTex' = r.tex
           /\ outBuf' = r.buf
    /\ gpuPc' = gpuPc + 1
    /\ UNCHANGED <<pc, panic, inputVars, i, op, texture, encoder, queue, submits,
                   signal, image, extractVars>>

\* The backend completes the map request once the submitted work is done.
MapCallbackMutNever ==
    /\ FALSE
    /\ UNCHANGED vars
MapCallback ==
    /\ outBuf.map = "pending"
    /\ submits > 0
    /\ gpuPc = Len(queue)
    /\ \E result \in {"ok", "err"} :
         /\ signal' = result
         /\ outBuf' = [outBuf EXCEPT !.map = IF result = "ok" THEN "mapped" ELSE "failed"]
    /\ UNCHANGED <<pc, panic, inputVars, i, op, texture, gpuTex, encoder, queue,
                   submits, gpuPc, image, extractVars>>

\* ------------------------------------------------------ main.rs: lights
LightsSystem ==
    /\ pc = "lights"
    /\ IF hasCamera
       THEN pc' = "get_lightmap" /\ panic' = panic
       ELSE pc' = "panicked" /\ panic' = "camera.single"
    /\ UNCHANGED <<inputVars, i, op, texture, gpuTex, encoder, queue, submits,
                   gpuPc, outBuf, signal, image, extractVars>>

\* ------------------------------------------------- light.rs: get_lightmap
GetWindowMutNoExpect ==
    /\ pc = "get_lightmap"
    /\ pc' = "setup"
    /\ UNCHANGED <<panic, inputVars, i, op, texture, gpuTex, encoder, queue,
                   submits, gpuPc, outBuf, signal, image, extractVars>>
GetWindow ==
    /\ pc = "get_lightmap"
    /\ IF hasWindow
       THEN pc' = "setup" /\ panic' = panic
       ELSE pc' = "panicked" /\ panic' = "No primary window"
    /\ UNCHANGED <<inputVars, i, op, texture, gpuTex, encoder, queue, submits,
                   gpuPc, outBuf, signal, image, extractVars>>

FreshTexture == [written |-> FALSE, px |-> [p \in Pixels(win) |-> garbage]]

Setup ==
    /\ pc = "setup"
    /\ gpuTex' = Append(gpuTex, FreshTexture)
    /\ texture' = Len(gpuTex) + 1
    /\ outBuf' = [size |-> u32_size * win.width * win.height,
                  map |-> "unmapped", data |-> <<>>]
    /\ op' = "Clear"
    /\ i' = 0
    /\ pc' = "loop"
    /\ UNCHANGED <<panic, inputVars, encoder, queue, submits, gpuPc, signal,
                   image, extractVars>>

PassA ==
    /\ pc = "loop"
    /\ LoopContinues(i, Len(lights))
    /\ encoder' = Append(encoder,
          [kind |-> "shadow_mask", light |-> i, view |-> texture, load |-> op,
           verts |-> BuildVerts(occlusions, lights[i + 1], camera, win),
           draws |-> 1])
    /\ op' = NextOp(op)
    /\ pc' = "pass_b"
    /\ UNCHANGED <<panic, inputVars, i, texture, gpuTex, queue, submits, gpuPc,
                   outBuf, signal, image, extractVars>>

PassB ==
    /\ pc = "pass_b"
    /\ IF Len(lights) < 1
       THEN /\ pc' = "panicked"
            /\ panic' = "attempt to subtract with overflow"
            /\ UNCHANGED <<i, texture, gpuTex, encoder>>
       ELSE LET light == lights[i + 1]
                out_tex == Len(gpuTex) + 1
                light_uniform ==
                    [data |-> <<light.color[1], light.color[2], light.color[3],
                                light.intensity>>,
                     last |-> <<is_last(i, Len(lights)), 0, 0, 0>>]
            IN  /\ gpuTex' = Append(gpuTex, FreshTexture)
                /\ encoder' = Append(encoder,
                      [kind |-> "add_light", light |-> i, view |-> out_tex,
                       load |-> "Load", bound |-> texture,
                       uniform |-> light_uniform, verts |-> QuadVerts, draws |-> 1])
                /\ texture' = NextTexture(texture, out_tex)
                /\ i' = i + 1
                /\ pc' = "loop"
                /\ panic' = panic
    /\ UNCHANGED <<inputVars, op, queue, submits, gpuPc, outBuf, signal, image,
                   extractVars>>

CopyTextureToBuffer ==
    /\ pc = "loop"
    /\ ~LoopContinues(i, Len(lights))
    /\ encoder' = Append(encoder,
          [kind |-> "copy_texture_to_buffer", texture |-> texture,
           bytes_per_row |-> u32_size * win.width,
           rows_per_image |-> win.height])
    /\ pc' = "submit"
    /\ UNCHANGED <<panic, inputVars, i, op, texture, gpuTex, queue, submits,
                   gpuPc, outBuf, signal, image, extractVars>>

SubmitMutPerLoop ==
    /\ pc = "submit"
    /\ queue' = queue \o encoder
    /\ submits' = submits + 1
    /\ pc' = IF submits = 0 THEN "loop" ELSE "map_async"
    /\ UNCHANGED <<panic, inputVars, i, op, texture, gpuTex, encoder, gpuPc,
                   outBuf, signal, image, extractVars>>
Submit ==
    /\ pc = "submit"
    /\ queue' = queue \o encoder
    /\ submits' = submits + 1
    /\ pc' = "map_async"
    /\ UNCHANGED <<panic, inputVars, i, op, texture, gpuTex, encoder, gpuPc,
                   outBuf, signal, image, extractVars>>

MapAsync ==
    /\ pc = "map_async"
    /\ outBuf' = [outBuf EXCEPT !.map = "pending"]
    /\ pc' = "poll"
    /\ UNCHANGED <<panic, inputVars, i, op, texture, gpuTex, encoder, queue,
                   submits, gpuPc, signal, image, extractVars>>

\* device.poll(Maintain::Wait) and block_on(rx.receive()) return once the
\* submitted work is done and the callback has sent its result.
PollMutNoWait ==
    /\ pc = "poll"
    /\ pc' = "receive"
    /\ UNCHANGED <<panic, inputVars, i, op, texture, gpuTex, encoder, queue,
                   submits, gpuPc, outBuf, signal, image, extractVars>>
Poll ==
    /\ pc = "poll"
    /\ gpuPc = Len(queue)
    /\ signal # "none"
    /\ pc' = "receive"
    /\ UNCHANGED <<panic, inputVars, i, op, texture, gpuTex, encoder, queue,
                   submits, gpuPc, outBuf, signal, image, extractVars>>

ReceiveMutNoUnwrap ==
    /\ pc = "receive"
    /\ pc' = "save"
    /\ UNCHANGED <<panic, inputVars, i, op, texture, gpuTex, encoder, queue,
                   submits, gpuPc, outBuf, signal, image, extractVars>>
Receive ==
    /\ pc = "receive"
    /\ IF signal = "ok"
       THEN pc' = "save" /\ panic' = panic
       ELSE pc' = "panicked" /\ panic' = "BufferAsyncError"
    /\ UNCHANGED <<inputVars, i, op, texture, gpuTex, encoder, queue, submits,
                   gpuPc, outBuf, signal, image, extractVars>>

SaveImage ==
    /\ pc = "save"
    /\ IF outBuf.size >= u32_size * win.width * win.height
       THEN /\ image' = outBuf.data
            /\ pc' = "unmap"
            /\ panic' = panic
       ELSE /\ image' = image
            /\ pc' = "panicked"
            /\ panic' = "from_raw: None"
    /\ UNCHANGED <<inputVars, i, op, texture, gpuTex, encoder, queue, submits,
                   gpuPc, outBuf, signal, extractVars>>

Unmap ==
    /\ pc = "unmap"
    /\ outBuf' = [outBuf EXCEPT !.map = "unmapped"]
    /\ pc' = "done"
    /\ UNCHANGED <<panic, inputVars, i, op, texture, gpuTex, encoder, queue,
                   submits, gpuPc, signal, image, extractVars>>

Next ==
    \/ LightsSystem
    \/ GetWindow
    \/ Setup
    \/ PassA
    \/ PassB
    \/ CopyTextureToBuffer
    \/ Submit
    \/ MapAsync
    \/ GpuExecute
    \/ MapCallback
    \/ Poll
    \/ Receive
    \/ SaveImage
    \/ Unmap

Spec == Init /\ [][Next]_vars

\* The frame's own code is sequential and runs on until it returns, panics
\* or blocks in the wait; the backend works through what was submitted and
\* completes the map request.
CpuStep ==
    \/ LightsSystem
    \/ GetWindow
    \/ Setup
    \/ PassA
    \/ PassB
    \/ CopyTextureToBuffer
    \/ Submit
    \/ MapAsync
    \/ Poll
    \/ Receive
    \/ SaveImage
    \/ Unmap

\* Whether the frame ends does not depend on the scene's geometry: the
\* frames of every light list, with no occluders.
InitLive ==
    /\ InitFrame
    /\ hasCamera \in BOOLEAN
    /\ hasWindow \in BOOLEAN
    /\ win \in WindowChoices
    /\ camera = [translation |-> <<0, 0>>, scale |-> 1]
    /\ lights \in SeqsUpTo(LightChoices, MaxLights)
    /\ occlusions = <<>>
    /\ garbage = <<0, 0, 0, 0>>
    /\ mesh = NoMesh
    /\ extracted = <<>>
    /\ args = NoArgs
    /\ ret = <<>>

SpecLive ==
    /\ InitLive
    /\ [][Next]_vars
    /\ WF_vars(CpuStep)
    /\ WF_vars(GpuExecute)
    /\ WF_vars(MapCallback)


\* ------------------------------------ the cull test and the vertex list
\* One light and one occluder starting on the grid, in the state
\* get_lightmap is in when it enters the loop over the lights.  The camera
\* is off-centre, so that the grid holds points on every side of the
\* viewport box and, on one side, two deep.
GridPoints == (-Grid..Grid) \X (-Grid..Grid)
\* end - start of the occluder: a point, axis-aligned and oblique segments.
EdgeChoices == {<<0, 0>>, <<1, 0>>, <<0, 1>>, <<-1, -1>>, <<2, 1>>}

InitCull ==
    /\ pc = "loop"
    /\ panic = ""
    /\ hasCamera = TRUE
    /\ hasWindow = TRUE
    /\ win \in WindowChoices
    /\ camera = [translation |-> <<1, 1>>, scale |-> 1]
    /\ \E pos \in GridPoints :
         lights = <<[pos |-> pos, color |-> <<1, 1, 1>>, intensity |-> One]>>
    /\ \E start \in GridPoints, edge \in EdgeChoices :
         occlusions = <<[start |-> start,
                         end |-> <<start[1] + edge[1], start[2] + edge[2]>>,
                         visibility |-> FInt(1)]>>
    /\ garbage = <<0, 0, 0, 0>>
    /\ i = 0
    /\ op = "Clear"
    /\ texture = 1
    /\ gpuTex = <<FreshTexture>>
    /\ encoder = <<>>
    /\ queue = <<>>
    /\ submits = 0
    /\ gpuPc = 0
    /\ outBuf = [size |-> u32_size * win.width * win.height,
                 map |-> "unmapped", data |-> <<>>]
    /\ signal = "none"
    /\ image = <<>>
    /\ mesh = NoMesh
    /\ extracted = <<>>
    /\ args = NoArgs
    /\ ret = <<>>

NextCull == PassA

SpecCull == InitCull /\ [][NextCull]_vars

\* ---------------------------- types.rs: shadow_caster_to_occlusion_data
\* The mesh: its positions without z, and its index list (0-based).
MeshVertices == << <<0, 0>>, <<1, 0>>, <<0, 1>>, <<1, 1>> >>
TransformChoices ==
    { [translation |-> <<0, 0>>, scale |-> 1],
      [translation |-> <<1, 2>>, scale |-> 2] }

\* `occlusions` after the loop over the triangles: entry j (from 1).
TriangleEdge(m, j) ==
    LET t == (j - 1) \div 3
        e == (j - 1) % 3
        a == m.indices[3 * t + e + 1]
        b == m.indices[3 * t + ((e + 1) % 3) + 1]
    IN  [start |-> m.vertices[a + 1], end |-> m.vertices[b + 1]]

shadow_caster_to_occlusion_data(transform, m) ==
    [j \in 1..(3 * (Len(m.indices) \div 3)) |->
        LET o == TriangleEdge(m, j)
            start == TransformPoint(transform, o.start)
            end == TransformPoint(transform, o.start)
        IN  [start |-> start, end |-> end]]

Extract ==
    /\ pc = "extract"
    /\ extracted' = <<shadow_caster_to_occlusion_data(mesh.transform, mesh)>>
    /\ pc' = "extracted"
    /\ UNCHANGED <<panic, inputVars, i, op, texture, gpuTex, encoder, queue,
                   submits, gpuPc, outBuf, signal, image, mesh, args, ret>>

InitExtract ==
    /\ pc = "extract"
    /\ panic = ""
    /\ i = 0
    /\ op = "None"
    /\ texture = 0
    /\ gpuTex = <<>>
    /\ encoder = <<>>
    /\ queue = <<>>
    /\ submits = 0
    /\ gpuPc = 0
    /\ outBuf = [size |-> 0, map |-> "none", data |-> <<>>]
    /\ signal = "none"
    /\ image = <<>>
    /\ hasCamera = TRUE
    /\ hasWindow = TRUE
    /\ win \in WindowChoices
    /\ camera = [translation |-> <<0, 0>>, scale |-> 1]
    /\ lights = <<>>
    /\ occlusions = <<>>
    /\ garbage = <<0, 0, 0, 0>>
    /\ \E ind \in SeqsUpTo(0..(Len(MeshVertices) - 1), MaxIndices),
          t \in TransformChoices :
         mesh = [vertices |-> MeshVertices, indices |-> ind, transform |-> t]
    /\ extracted = <<>>
    /\ args = NoArgs
    /\ ret = <<>>

NextExtract == Extract

SpecExtract == InitExtract /\ [][NextExtract]_vars

\* ------------------------------------------- the texture-to-buffer copy
\* A window of any size and no lights, in the state get_lightmap is in
\* when the loop is over and the copy is about to be recorded.  (Spec keeps
\* to one small window and leaves the backend's validation of the copy to
\* this specification.)
InitCopy ==
    /\ pc = "loop"
    /\ panic = ""
    /\ hasCamera = TRUE
    /\ hasWindow = TRUE
    /\ \E width \in 1..MaxWidth, height \in 1..MaxHeight :
         win = [width |-> width, height |-> height]
    /\ camera = [translation |-> <<0, 0>>, scale |-> 1]
    /\ lights = <<>>
    /\ occlusions = <<>>
    /\ garbage = <<0, 0, 0, 0>>
    /\ i = 0
    /\ op = "Clear"
    /\ texture = 1
    /\ gpuTex = <<FreshTexture>>
    /\ encoder = <<>>
    /\ queue = <<>>
    /\ submits = 0
    /\ gpuPc = 0
    /\ outBuf = [size |-> u32_size * win.width * win.height,
                 map |-> "unmapped", data |-> <<>>]
    /\ signal = "none"
    /\ image = <<>>
    /\ mesh = NoMesh
    /\ extracted = <<>>
    /\ args = NoArgs
    /\ ret = <<>>

NextCopy == CopyTextureToBuffer

SpecCopy == InitCopy /\ [][NextCopy]_vars

\* The backend's row alignment for buffer copies, and its validation of a
\* texture-to-buffer copy of a w.width x w.height RGBA8 texture (design 4.6).
COPY_BYTES_PER_ROW_ALIGNMENT == 256
CopyAccepted(cmd, buf, w) ==
    /\ cmd.bytes_per_row % COPY_BYTES_PER_ROW_ALIGNMENT = 0
    /\ cmd.bytes_per_row >= u32_size * w.width
    /\ buf.size >= cmd.bytes_per_row * (w.height - 1) + u32_size * w.width

\* ------------------------------------------------ min and max, by themselves
\* f32 operands: NaN with two payloads, both infinities, and fractions.  The
\* payload tells one NaN from another; it is 0 for every other value.
Float(n, d, payload) == [n |-> n, d |-> d, payload |-> payload]
FloatChoices ==
    {Float(0, 0, 1), Float(0, 0, 2), Float(1, 0, 0), Float(-1, 0, 0)} \cup
    {Float(Frac(n, d).n, Frac(n, d).d, 0) : n \in (-MaxNum)..MaxNum, d \in {1, 2}}

InitMinMax ==
    /\ pc = "min_max"
    /\ panic = ""
    /\ i = 0
    /\ op = "None"
    /\ texture = 0
    /\ gpuTex = <<>>
    /\ encoder = <<>>
    /\ queue = <<>>
    /\ submits = 0
    /\ gpuPc = 0
    /\ outBuf = [size |-> 0, map |-> "none", data |-> <<>>]
    /\ signal = "none"
    /\ image = <<>>
    /\ hasCamera = TRUE
    /\ hasWindow = TRUE
    /\ win \in WindowChoices
    /\ camera = [translation |-> <<0, 0>>, scale |-> 1]
    /\ lights = <<>>
    /\ occlusions = <<>>
    /\ garbage = <<0, 0, 0, 0>>
    /\ mesh = NoMesh
    /\ extracted = <<>>
    /\ \E f \in {"min", "max"}, a \in FloatChoices, b \in FloatChoices :
         args = [f |-> f, a |-> a, b |-> b]
    /\ ret = <<>>

MinMaxCall ==
    /\ pc = "min_max"
    /\ ret' = <<IF args.f = "min" THEN min(args.a, args.b) ELSE max(args.a, args.b)>>
    /\ pc' = "returned"
    /\ UNCHANGED <<panic, inputVars, i, op, texture, gpuTex, encoder, queue,
                   submits, gpuPc, outBuf, signal, image, mesh, extracted, args>>

NextMinMax == MinMaxCall

SpecMinMax == InitMinMax /\ [][NextMinMax]_vars

\* ------------------------------------------------- sizes in u32 arithmetic
\* A u32 is kept as two 16-bit halves, value hi * 2^16 + lo, so that the
\* values up to 2^32 - 1 and the wrap at 2^32 are exact.
Half == 2^16
ToU32(n) == [hi |-> (n \div Half) % Half, lo |-> n % Half]
wrapping_add(x, y) ==
    [hi |-> (x.hi + y.hi + ((x.lo + y.lo) \div Half)) % Half,
     lo |-> (x.lo + y.lo) % Half]
\* x * n modulo 2^32, by doubling.
RECURSIVE wrapping_mul(_, _)
wrapping_mul(x, n) ==
    IF n = 0 THEN ToU32(0)
    ELSE LET rest == wrapping_mul(wrapping_add(x, x), n \div 2)
         IN  IF n % 2 = 1 THEN wrapping_add(rest, x) ELSE rest

\* u32_size * width * height exceeds u32::MAX: one of the two products does.
SizeOverflows(width, height) ==
    \/ width > 2^30 - 1
    \/ height > 0 /\ width > ((2^30 - 1) \div height)

\* `(u32_size * width * height)` and `u32_size * width` as the build computes
\* them: a build with overflow checks panics where a build without wraps.
output_buffer_size(width, height) == wrapping_mul(ToU32(u32_size * width), height)
bytes_per_row(width) == ToU32(u32_size * width)

\* Window sizes: powers of two and three times powers of two.
Dims == {2^k : k \in 0..MaxBits} \cup {3 * 2^k : k \in 0..MaxBits}

InitSize ==
    /\ pc = "sizes"
    /\ panic = ""
    /\ i = 0
    /\ op = "None"
    /\ texture = 0
    /\ gpuTex = <<>>
    /\ encoder = <<>>
    /\ queue = <<>>
    /\ submits = 0
    /\ gpuPc = 0
    /\ outBuf = [size |-> 0, map |-> "none", data |-> <<>>]
    /\ signal = "none"
    /\ image = <<>>
    /\ hasCamera = TRUE
    /\ hasWindow = TRUE
    /\ win \in WindowChoices
    /\ camera = [translation |-> <<0, 0>>, scale |-> 1]
    /\ lights = <<>>
    /\ occlusions = <<>>
    /\ garbage = <<0, 0, 0, 0>>
    /\ mesh = NoMesh
    /\ extracted = <<>>
    /\ \E width \in Dims, height \in Dims, checks \in BOOLEAN :
         args = [f |-> "sizes", width |-> width, height |-> height,
                 overflow_checks |-> checks]
    /\ ret = <<>>

SizeCall ==
    /\ pc = "sizes"
    /\ IF args.overflow_checks /\ SizeOverflows(args.width, args.height)
       THEN /\ pc' = "panicked"
            /\ panic' = "attempt to multiply with overflow"
            /\ ret' = ret
       ELSE /\ pc' = "sized"
            /\ panic' = panic
            /\ ret' = <<[output_buffer_size |-> output_buffer_size(args.width, args.height),
                         bytes_per_row |-> bytes_per_row(args.width)]>>
    /\ UNCHANGED <<inputVars, i, op, texture, gpuTex, encoder, queue, submits,
                   gpuPc, outBuf, signal, image, mesh, extracted, args>>

NextSize == SizeCall

SpecSize == InitSize /\ [][NextSize]_vars

\* ------------------------------------------------------------- properties
\* The frame is past the loop over the lights.
AfterLoop == pc \in {"submit", "map_async", "poll", "receive", "save", "unmap", "done"}

LightData4(light) ==
    <<light.color[1], light.color[2], light.color[3], light.intensity>>

\* C1: one call records exactly N shadow-mask passes and N additive-light
\* passes, in the order A_0, B_0, ..., A_{N-1}, B_{N-1} of the light list;
\* no light is skipped (zero intensity included) or processed twice, and
\* every Pass A holds one draw call over one vertex list.
C1_PassOrder ==
    /\ \A k \in 1..Len(encoder) :
         IF k <= 2 * Len(lights)
         THEN IF k % 2 = 1
              THEN /\ encoder[k].kind = "shadow_mask"
                   /\ encoder[k].light = (k - 1) \div 2
                   /\ encoder[k].draws = 1
                   /\ Len(encoder[k].verts) % 6 = 0
                   /\ Len(encoder[k].verts) <= 6 * Len(occlusions)
              ELSE /\ encoder[k].kind = "add_light"
                   /\ encoder[k].light = (k - 2) \div 2
                   /\ encoder[k].uniform.data = LightData4(lights[k \div 2])
         ELSE /\ k = 2 * Len(lights) + 1
              /\ encoder[k].kind = "copy_texture_to_buffer"
    /\ AfterLoop => Len(encoder) = 2 * Len(lights) + 1
    /\ pc = "pass_b" => Len(encoder) = 2 * i + 1
    /\ pc = "loop" => Len(encoder) = 2 * i

C1_Witness ==
    /\ pc = "done"
    /\ Len(lights) = 2
    /\ lights[1].intensity = 0
    /\ Len(encoder[3].verts) = 12

\* C2: the texture Pass B of light i writes is the texture Pass A of light
\* i+1 draws into and Pass B of light i+1 samples; the copy reads the
\* texture Pass B of the last light wrote, or the initial one when N = 0.
C2_PingPong ==
    /\ \A k \in 1..Len(encoder) :
         /\ (encoder[k].kind = "add_light") =>
               /\ encoder[k].bound = encoder[k - 1].view
               /\ encoder[k].view # encoder[k].bound
               /\ \A j \in 1..(k - 1) : encoder[j].view # encoder[k].view
         /\ (encoder[k].kind = "shadow_mask" /\ k > 1) =>
               encoder[k].view = encoder[k - 1].view
         /\ (encoder[k].kind = "shadow_mask" /\ k = 1) => encoder[k].view = 1
         /\ (encoder[k].kind = "copy_texture_to_buffer") =>
               encoder[k].texture = IF k = 1 THEN 1 ELSE encoder[k - 1].view
    /\ (submits > 0 /\ gpuPc = Len(queue)) =>
          outBuf.data = <<gpuTex[IF Len(lights) = 0 THEN 1
                                 ELSE queue[2 * Len(lights)].view].px>>

C2_Witness ==
    /\ pc = "done"
    /\ Len(lights) = 2
    /\ encoder[3].view = encoder[2].view
    /\ encoder[4].bound = encoder[2].view
    /\ encoder[5].texture = encoder[4].view

\* C3 (as claimed): the Pass A target is cleared to the baseline exactly
\* once per frame, by the first recorded pass; every later Pass A and
\* every Pass B loads.
C3_ClearedExactlyOnce ==
    AfterLoop =>
       /\ Cardinality({k \in 1..Len(encoder) :
             encoder[k].kind # "copy_texture_to_buffer" /\ encoder[k].load = "Clear"}) = 1
       /\ \A k \in 1..Len(encoder) :
             (encoder[k].kind # "copy_texture_to_buffer" /\ encoder[k].load = "Clear")
                => (k = 1 /\ encoder[k].kind = "shadow_mask")

\* C5 (as claimed): with an empty light list the image that is written is
\* the baseline in every pixel, and the texture that was copied has been
\* written by a clear.
C5_EmptyListBaseline ==
    (pc = "done" /\ Len(lights) = 0) =>
       /\ image = <<[p \in Pixels(win) |-> Baseline]>>
       /\ gpuTex[queue[1].texture].written

\* C6: the is-last-light flag of a Pass B is 1.0 iff the light's index is
\* count-1 and 0.0 otherwise: for N >= 1 exactly the final recorded Pass B
\* carries it, and for N = 0 count-1 is never evaluated.
C6_LastFlag ==
    /\ \A k \in 1..Len(encoder) :
         (encoder[k].kind = "add_light") =>
            /\ encoder[k].uniform.last[1] = (IF k = 2 * Len(lights) THEN 1 ELSE 0)
            /\ encoder[k].uniform.last[2] = 0
            /\ encoder[k].uniform.last[3] = 0
            /\ encoder[k].uniform.last[4] = 0
    /\ (AfterLoop /\ Len(lights) >= 1) =>
          /\ Cardinality({k \in 1..Len(encoder) :
                encoder[k].kind = "add_light" /\ encoder[k].uniform.last[1] = 1}) = 1
          /\ encoder[Len(encoder) - 1].uniform.last[1] = 1
    /\ panic # "attempt to subtract with overflow"
    /\ Len(lights) = 0 => \A k \in 1..Len(encoder) : encoder[k].kind # "add_light"

C6_Witness ==
    /\ pc = "done"
    /\ Len(lights) = 2
    /\ encoder[2].uniform.last[1] = 0
    /\ encoder[4].uniform.last[1] = 1


\* C4 (as claimed): when Pass B of light j is about to sample, the
\* visibility channel of every pixel is the baseline overdrawn by the skirts of
\* light j alone, whatever the earlier lights wrote.
C4_MaskOnlyCurrentLight ==
    \A j \in 0..(Len(lights) - 1) :
       (submits > 0 /\ gpuPc = 2 * j + 1) =>
          \A p \in Pixels(win) :
             gpuTex[queue[2 * j + 2].bound].px[p][1]
                = MaskAfterDraw(Baseline[1], queue[2 * j + 1].verts, p, win)


\* --------------------------------------------- culling and vertex lists
\* The slab test as the design states it, with its NaN-tolerant min/max.
C7_Min(a, b) ==
    IF IsNaN(a) /\ IsNaN(b) THEN a
    ELSE IF IsNaN(a) THEN b
    ELSE IF IsNaN(b) THEN a
    ELSE IF FLt(b, a) THEN b ELSE a
C7_Max(a, b) ==
    IF IsNaN(a) /\ IsNaN(b) THEN a
    ELSE IF IsNaN(a) THEN b
    ELSE IF IsNaN(b) THEN a
    ELSE IF FLt(a, b) THEN b ELSE a
C7_TNearLtTFar(o, d, boxMin, boxMax) ==
    LET tMinX == FDivInt(boxMin[1] - o[1], d[1])
        tMinY == FDivInt(boxMin[2] - o[2], d[2])
        tMaxX == FDivInt(boxMax[1] - o[1], d[1])
        tMaxY == FDivInt(boxMax[2] - o[2], d[2])
        tNear == C7_Max(C7_Min(tMinX, tMaxX), C7_Min(tMinY, tMaxY))
        tFar == C7_Min(C7_Max(tMinX, tMaxX), C7_Max(tMinY, tMaxY))
    IN  FLt(tNear, tFar)

Minus(p, q) == <<p[1] - q[1], p[2] - q[2]>>
BoxMin == bottom_left(camera, win)
BoxMax == top_right(camera, win)

\* p' = (p - cameraPos) / (worldWindowSize / 2)
NdcOf(p) ==
    <<Frac(p[1] - camera.translation[1], world_window_size(camera, win)[1] \div 2),
      Frac(p[2] - camera.translation[2], world_window_size(camera, win)[2] \div 2)>>

\* A 6-vertex block of the vertex list is the skirt of occluder o.
SkirtPresent(verts, o) ==
    \E b \in 0..((Len(verts) \div 6) - 1) :
       /\ verts[6 * b + 1].position = <<NdcOf(o.start)[1], NdcOf(o.start)[2], 1>>
       /\ verts[6 * b + 3].position = <<NdcOf(o.end)[1], NdcOf(o.end)[2], 1>>
       /\ verts[6 * b + 1].tex_coords[1] = FSub(FInt(1), o.visibility)

ShadowPasses == {k \in 1..Len(encoder) : encoder[k].kind = "shadow_mask"}
LightOf(k) == lights[encoder[k].light + 1]

\* C7: an occluder's skirt is in a light's shadow geometry iff tNear < tFar
\* for the start ray (direction start - light.pos) or for the end ray
\* (direction end - light.pos).
C7_IncludedIffEitherRay ==
    \A k \in ShadowPasses : \A m \in 1..Len(occlusions) :
       SkirtPresent(encoder[k].verts, occlusions[m])
          <=> \/ C7_TNearLtTFar(occlusions[m].start,
                                Minus(occlusions[m].start, LightOf(k).pos), BoxMin, BoxMax)
              \/ C7_TNearLtTFar(occlusions[m].end,
                                Minus(occlusions[m].end, LightOf(k).pos), BoxMin, BoxMax)

\* Included through the end ray alone, the start ray having a zero component.
C7_Witness ==
    /\ pc = "pass_b"
    /\ Len(encoder[1].verts) = 6
    /\ occlusions[1].start[1] = lights[1].pos[1]
    /\ ~C7_TNearLtTFar(occlusions[1].start,
                       Minus(occlusions[1].start, lights[1].pos), BoxMin, BoxMax)
    /\ C7_TNearLtTFar(occlusions[1].end,
                      Minus(occlusions[1].end, lights[1].pos), BoxMin, BoxMax)

\* Geometry, without the slab method.  A parameter t is a fraction; the
\* point o + t*d lies in the box when each coordinate does.
LoCorner == <<IF BoxMin[1] < BoxMax[1] THEN BoxMin[1] ELSE BoxMax[1],
              IF BoxMin[2] < BoxMax[2] THEN BoxMin[2] ELSE BoxMax[2]>>
HiCorner == <<IF BoxMin[1] < BoxMax[1] THEN BoxMax[1] ELSE BoxMin[1],
              IF BoxMin[2] < BoxMax[2] THEN BoxMax[2] ELSE BoxMin[2]>>
InClosedBox(o, d, t) ==
    \A c \in 1..2 : /\ LoCorner[c] * t.d <= o[c] * t.d + t.n * d[c]
                    /\ o[c] * t.d + t.n * d[c] <= HiCorner[c] * t.d
InOpenBox(o, d, t) ==
    \A c \in 1..2 : /\ LoCorner[c] * t.d < o[c] * t.d + t.n * d[c]
                    /\ o[c] * t.d + t.n * d[c] < HiCorner[c] * t.d
\* The parameters at which the line o + t*d crosses a side of the box, and 0.
Crossings(o, d) ==
    {FInt(0)} \cup
    {Frac(LoCorner[c] - o[c], d[c]) : c \in {c \in 1..2 : d[c] # 0}} \cup
    {Frac(HiCorner[c] - o[c], d[c]) : c \in {c \in 1..2 : d[c] # 0}}
Midpoints(o, d) ==
    {Frac(a.n * b.d + b.n * a.d, 2 * a.d * b.d) : a \in Crossings(o, d), b \in Crossings(o, d)}

\* The ray from the light through endpoint p (t >= 0) meets the closed box.
RayMeetsBox(l, p) ==
    \E t \in Crossings(l, Minus(p, l)) : t.n >= 0 /\ InClosedBox(l, Minus(p, l), t)
\* The ray from the light through p (t >= 0) passes through the box's interior.
RayCrossesInterior(l, p) ==
    \E t \in Midpoints(l, Minus(p, l)) : t.n >= 0 /\ InOpenBox(l, Minus(p, l), t)
\* The whole line through p and the light (t of either sign) passes through
\* the box's interior; when p is the light's position the line is the point p.
LineCrossesInterior(l, p) ==
    \E t \in Midpoints(p, Minus(p, l)) : InOpenBox(p, Minus(p, l), t)

\* C8 (as claimed): culling is exact for the rays cast from the light
\* through the end points (t >= 0): no ray meets the box => no vertices; some
\* ray meets the box => the skirt is present.
C8_ExactForRays ==
    \A k \in ShadowPasses : \A m \in 1..Len(occlusions) :
       SkirtPresent(encoder[k].verts, occlusions[m])
          <=> \/ RayMeetsBox(LightOf(k).pos, occlusions[m].start)
              \/ RayMeetsBox(LightOf(k).pos, occlusions[m].end)

\* C8 (amended): culling is conservative and tests lines against the interior
\* of the box: the skirt is present iff the line through the light and the
\* start point, or through the light and the end point, passes through the
\* interior of the viewport box; so it is present whenever a ray from the
\* light crosses the interior, and absent when neither line does.
C8_ConservativeForLines ==
    \A k \in ShadowPasses : \A m \in 1..Len(occlusions) :
       /\ SkirtPresent(encoder[k].verts, occlusions[m])
             <=> \/ LineCrossesInterior(LightOf(k).pos, occlusions[m].start)
                 \/ LineCrossesInterior(LightOf(k).pos, occlusions[m].end)
       /\ (\/ RayCrossesInterior(LightOf(k).pos, occlusions[m].start)
           \/ RayCrossesInterior(LightOf(k).pos, occlusions[m].end))
             => SkirtPresent(encoder[k].verts, occlusions[m])

\* Both rays miss the box, and the skirt is present all the same.
C8_Witness ==
    /\ pc = "pass_b"
    /\ Len(encoder[1].verts) = 6
    /\ ~RayMeetsBox(lights[1].pos, occlusions[1].start)
    /\ ~RayMeetsBox(lights[1].pos, occlusions[1].end)

\* The six vertices of the skirt of occluder o for light l, as the design
\* lists them: (s,1), (s-l,0), (e,1), (e,1), (s-l,0), (e-l,0).
C9_Skirt(o, l) ==
    LET s == NdcOf(o.start)
        e == NdcOf(o.end)
        lp == NdcOf(l.pos)
        tc == <<FSub(FInt(1), o.visibility), FInt(0)>>
        near(p) == [position |-> <<p[1], p[2], 1>>, tex_coords |-> tc]
        far(p) == [position |-> <<FSub(p[1], lp[1]), FSub(p[2], lp[2]), 0>>,
                   tex_coords |-> tc]
    IN  <<near(s), far(s), near(e), near(e), far(s), far(e)>>

C9_IsIncluded(o, l) ==
    \/ C7_TNearLtTFar(o.start, Minus(o.start, l.pos), BoxMin, BoxMax)
    \/ C7_TNearLtTFar(o.end, Minus(o.end, l.pos), BoxMin, BoxMax)

RECURSIVE C9_Concat(_, _)
C9_Concat(occs, l) ==
    IF occs = <<>> THEN <<>>
    ELSE (IF C9_IsIncluded(Head(occs), l) THEN C9_Skirt(Head(occs), l) ELSE <<>>)
         \o C9_Concat(Tail(occs), l)

\* C9: a light's Pass A vertex list is the concatenation, in occluder order,
\* of one 6-vertex skirt per included occluder.
C9_VertexList ==
    \A k \in ShadowPasses :
       /\ encoder[k].verts = C9_Concat(occlusions, LightOf(k))
       /\ Len(encoder[k].verts)
             = 6 * Cardinality({m \in 1..Len(occlusions) :
                                  C9_IsIncluded(occlusions[m], LightOf(k))})

\* Two skirts in one list, and a list that skips a culled occluder, under a
\* camera that is neither at the origin nor of unit scale.
C9_Witness ==
    /\ pc = "done"
    /\ camera.translation # <<0, 0>>
    /\ Len(occlusions) = 2
    /\ \E k \in ShadowPasses : Len(encoder[k].verts) = 12
    /\ \E k \in ShadowPasses : Len(encoder[k].verts) = 6

\* C10 (as claimed): for each triangle k of the index list the three segments
\* (T(v0),T(v1)), (T(v1),T(v2)), (T(v2),T(v0)) are emitted in that order, and
\* with distinct vertices every emitted segment has start # end.
C10_TriangleEdges ==
    (pc = "extracted") =>
       LET out == extracted[1]
           T(p) == TransformPoint(mesh.transform, p)
           v(n) == mesh.vertices[mesh.indices[n] + 1]
       IN  /\ Len(out) = 3 * (Len(mesh.indices) \div 3)
           /\ \A t \in 0..((Len(mesh.indices) \div 3) - 1) :
                /\ out[3 * t + 1] = [start |-> T(v(3 * t + 1)), end |-> T(v(3 * t + 2))]
                /\ out[3 * t + 2] = [start |-> T(v(3 * t + 2)), end |-> T(v(3 * t + 3))]
                /\ out[3 * t + 3] = [start |-> T(v(3 * t + 3)), end |-> T(v(3 * t + 1))]
                /\ Cardinality({v(3 * t + 1), v(3 * t + 2), v(3 * t + 3)}) = 3
                     => \A e \in 1..3 : out[3 * t + e].start # out[3 * t + e].end


\* ------------------------------------------------ submission and readback
Recording == {"loop", "pass_b"}
Submitted == {"map_async", "poll", "receive", "save", "unmap", "done"}

\* C11: every pass of the frame and the copy are recorded into the one
\* encoder, which is submitted exactly once, after the last Pass B and the
\* copy; nothing is recorded or submitted afterwards.
C11_SingleSubmit ==
    /\ submits <= 1
    /\ submits = 0 => queue = <<>>
    /\ pc \in Submitted => submits = 1
    /\ pc \in Recording \cup {"submit"} => submits = 0
    /\ submits = 1 =>
          /\ queue = encoder
          /\ Len(encoder) = 2 * Len(lights) + 1
          /\ encoder[Len(encoder)].kind = "copy_texture_to_buffer"
          /\ \A k \in 1..(2 * Len(lights)) :
                encoder[k].kind \in {"shadow_mask", "add_light"}

C11_Witness ==
    /\ pc = "done"
    /\ submits = 1
    /\ Len(lights) = MaxLights
    /\ gpuPc = Len(queue)

\* C12: readback goes submit, map request, poll, receipt of the signal,
\* read of the mapped bytes and write of the artifact, unmap: the bytes are
\* read only after the signal has fired with success, the map request
\* precedes the poll, and the buffer is unmapped once, after the read.
C12_ReadbackOrder ==
    /\ pc \in Recording \cup {"submit", "map_async"} =>
          /\ outBuf.map = "unmapped"
          /\ signal = "none"
          /\ image = <<>>
    /\ pc = "map_async" => submits = 1
    /\ pc = "poll" => submits = 1 /\ outBuf.map # "unmapped" /\ image = <<>>
    /\ pc = "receive" => signal # "none" /\ gpuPc = Len(queue) /\ image = <<>>
    /\ pc = "save" => signal = "ok" /\ outBuf.map = "mapped" /\ image = <<>>
    /\ pc = "unmap" => signal = "ok" /\ outBuf.map = "mapped" /\ image # <<>>
    /\ pc = "done" => signal = "ok" /\ outBuf.map = "unmapped" /\ image # <<>>
    /\ image # <<>> => signal = "ok" /\ gpuPc = Len(queue) /\ image = outBuf.data

C12_Witness ==
    /\ pc = "done"
    /\ Len(lights) > 0
    /\ outBuf.map = "unmapped"
    /\ image # <<>>

\* C13: when the completion signal carries a mapping error the frame aborts
\* there: the mapped range is never read and image.png is not written.
C13_MapErrorAborts ==
    signal = "err" =>
       /\ pc \in {"poll", "receive", "panicked"}
       /\ image = <<>>
       /\ pc = "panicked" => panic = "BufferAsyncError"

C13_Witness ==
    /\ signal = "err"
    /\ pc = "panicked"
    /\ panic = "BufferAsyncError"
    /\ Len(lights) > 0

\* C14: with no primary window or no camera the frame aborts with a
\* diagnostic before any texture or buffer is created, any pass recorded,
\* anything submitted or any artifact written.
C14_NoWindowNoCamera ==
    (~hasWindow \/ ~hasCamera) =>
       /\ pc \in {"lights", "get_lightmap", "panicked"}
       /\ pc = "panicked" => panic \in {"camera.single", "No primary window"}
       /\ gpuTex = <<>>
       /\ texture = 0
       /\ outBuf.map = "none"
       /\ encoder = <<>>
       /\ queue = <<>>
       /\ submits = 0
       /\ image = <<>>

C14_Witness ==
    /\ hasCamera
    /\ ~hasWindow
    /\ pc = "panicked"
    /\ panic = "No primary window"
    /\ Len(lights) > 0


\* ------------------------------------------------------------ the copy
RoundUp(x, m) == ((x + m - 1) \div m) * m
CopyCommands == {k \in 1..Len(encoder) : encoder[k].kind = "copy_texture_to_buffer"}

\* C15 (as claimed): the copy's bytesPerRow is 4 * width rounded up to the
\* backend's row alignment, the buffer holds at least bytesPerRow * height
\* bytes, and so the backend accepts the copy for every width.
C15_RowAlignment ==
    \A k \in CopyCommands :
       /\ encoder[k].bytes_per_row
             = RoundUp(u32_size * win.width, COPY_BYTES_PER_ROW_ALIGNMENT)
       /\ outBuf.size >= encoder[k].bytes_per_row * win.height
       /\ CopyAccepted(encoder[k], outBuf, win)

\* ----------------------------------------------------------- min and max
\* a is the ordinary smaller (larger) of the non-NaN operands x and y.
C16_Ordinary(f, r, x, y) ==
    /\ r \in {x, y}
    /\ IF f = "min" THEN ~FLt(x, r) /\ ~FLt(y, r) ELSE ~FLt(r, x) /\ ~FLt(r, y)

\* C16 (as claimed): with exactly one NaN operand the other operand is
\* returned, with two NaN operands the first operand, and otherwise the
\* ordinary smaller / larger operand, infinities included.
C16_BothNaNFirst ==
    pc = "returned" =>
       IF IsNaN(args.a) /\ IsNaN(args.b) THEN ret[1] = args.a
       ELSE IF IsNaN(args.a) THEN ret[1] = args.b
       ELSE IF IsNaN(args.b) THEN ret[1] = args.a
       ELSE C16_Ordinary(args.f, ret[1], args.a, args.b)

\* C16 (amended): with exactly one NaN operand the other operand is
\* returned, with two NaN operands the second operand (a NaN), and otherwise
\* the ordinary smaller / larger operand, infinities included.
C16_BothNaNSecond ==
    pc = "returned" =>
       IF IsNaN(args.a) /\ IsNaN(args.b) THEN ret[1] = args.b
       ELSE IF IsNaN(args.a) THEN ret[1] = args.b
       ELSE IF IsNaN(args.b) THEN ret[1] = args.a
       ELSE C16_Ordinary(args.f, ret[1], args.a, args.b)

C16_Witness ==
    /\ pc = "returned"
    /\ args.f = "max"
    /\ IsNaN(args.a)
    /\ IsNaN(args.b)
    /\ args.a # args.b
    /\ ret[1] = args.b


\* ------------------------------------------------- degenerate occluders
\* An end point on the light, a ray direction with a zero component, or a
\* segment of zero length.
Degenerate(o, l) ==
    \/ o.start = o.end
    \/ \E c \in 1..2 : o.start[c] = l.pos[c] \/ o.end[c] = l.pos[c]

\* C17: for an occluder degenerate with respect to the light the cull test
\* yields a boolean, and every vertex position emitted for it is finite.
C17_DegenerateRays ==
    \A k \in ShadowPasses : \A m \in 1..Len(occlusions) :
       Degenerate(occlusions[m], LightOf(k)) =>
          /\ Included(occlusions[m], LightOf(k), camera, win) \in BOOLEAN
          /\ \A n \in 1..Len(encoder[k].verts) :
                /\ IsFinite(encoder[k].verts[n].position[1])
                /\ IsFinite(encoder[k].verts[n].position[2])
                /\ encoder[k].verts[n].position[3] \in {0, 1}

\* The start point is the light's position, the segment has zero length,
\* and its skirt is emitted.
C17_Witness ==
    /\ pc = "pass_b"
    /\ occlusions[1].start = lights[1].pos
    /\ occlusions[1].end = lights[1].pos
    /\ Len(encoder[1].verts) = 6


\* ------------------------------------------------ the frame as a function
\* What the recorded passes compute, pixel by pixel, for a light list ls, an
\* occluder list occs and fresh-texture contents g.
RECURSIVE TexelAfter(_, _, _, _, _)
\* The texel Pass B of light j (from 0) samples at pixel p.
Sampled(ls, occs, g, j, p) ==
    LET loaded == IF j = 0 THEN Baseline ELSE TexelAfter(ls, occs, g, j, p)
    IN  <<MaskAfterDraw(loaded[1], BuildVerts(occs, ls[j + 1], camera, win), p, win),
          loaded[2], loaded[3], loaded[4]>>
\* The texel of `texture` at pixel p once n lights have been processed.
TexelAfter(ls, occs, g, n, p) ==
    IF n = 0 THEN g
    ELSE AddLightFragment(Sampled(ls, occs, g, n - 1, p),
                          [data |-> LightData4(ls[n]),
                           last |-> <<is_last(n - 1, Len(ls)), 0, 0, 0>>])
FrameImage(ls, occs, g) ==
    [p \in Pixels(win) |-> TexelAfter(ls, occs, g, Len(ls), p)]

IsOpaque(o) == o.visibility # FInt(0)
Reorderings(ls) ==
    {[k \in 1..Len(ls) |-> ls[f[k]]] : f \in Permutations(1..Len(ls))}

\* C18 (as claimed): the mask Pass B of any light samples is the mask the
\* same frame gives with the occluders of visibility 0 left out.
C18_InvisibleOccluders ==
    \A j \in 0..(Len(lights) - 1) :
       (submits > 0 /\ gpuPc = 2 * j + 1) =>
          \A p \in Pixels(win) :
             gpuTex[queue[2 * j + 2].bound].px[p][1]
                = Sampled(lights, SelectSeq(occlusions, IsOpaque), garbage, j, p)[1]

\* C19 (as claimed): the image written is the image of the frame for every
\* reordering of the light list.
C19_LightOrder ==
    pc = "done" =>
       \A ls \in Reorderings(lights) : image = <<FrameImage(ls, occlusions, garbage)>>

\* C20 (as claimed): the image written is the same whatever the contents of
\* freshly created textures, for every number of lights.
C20_Idempotent ==
    pc = "done" =>
       \A g \in GarbageChoices : image = <<FrameImage(lights, occlusions, g)>>

\* The frame function is what the recorded passes compute.
FrameImageIsImage ==
    pc = "done" => image = <<FrameImage(lights, occlusions, garbage)>>


\* ----------------------------------------------------------- termination
\* C21: with a backend that drains its queue and fires the completion
\* signal, every call of get_lightmap that gets past its window lookup
\* reaches the end of the frame (image written, buffer unmapped), or the
\* abort on a signal that carries a mapping error; and the frame leaves the
\* wait only once the signal has fired: there is no other way out.
C21_FrameTermination ==
    /\ (pc = "setup") ~> \/ (pc = "done" /\ image # <<>> /\ outBuf.map = "unmapped")
                         \/ (pc = "panicked" /\ signal = "err")
    /\ (signal = "ok") ~> (pc = "done" /\ image # <<>> /\ outBuf.map = "unmapped")
    /\ [][(pc = "poll" /\ pc' # "poll") => (signal # "none" /\ gpuPc = Len(queue))]_vars

C21_Witness ==
    /\ pc = "done"
    /\ signal = "ok"
    /\ image # <<>>
    /\ outBuf.map = "unmapped"
    /\ Len(lights) = MaxLights


\* ------------------------------------------------- channels written
\* The device executes the next submitted command, a pass of the given kind.
Executes(kind) == gpuPc' = gpuPc + 1 /\ queue[gpuPc + 1].kind = kind
PassBWritesAll ==
    Executes("add_light") =>
       /\ gpuTex'[queue[gpuPc + 1].view].written
       /\ \A p \in Pixels(win) :
             gpuTex'[queue[gpuPc + 1].view].px[p]
                = AddLightFragment(gpuTex[queue[gpuPc + 1].bound].px[p],
                                   queue[gpuPc + 1].uniform)

\* C22 (as claimed): for every light, Pass A leaves the green, blue and
\* alpha values of every pixel of its target as they were before the pass;
\* Pass B writes all four channels.
C22_PassAOnlyRed ==
    /\ [][Executes("shadow_mask") =>
             \A p \in Pixels(win) : \A c \in 2..4 :
                gpuTex'[queue[gpuPc + 1].view].px[p][c]
                   = gpuTex[queue[gpuPc + 1].view].px[p][c]]_vars
    /\ [][PassBWritesAll]_vars

\* C22 (amended): Pass A of a light with index >= 1 leaves green, blue and
\* alpha as the previous light's Pass B wrote them; Pass A of the first light
\* clears its target to the baseline, so green, blue and alpha are 0 after
\* it whatever they were before; in both the draw changes the visibility
\* channel only.  Pass B writes all four channels.
C22_PassAOnlyRedAfterClear ==
    /\ [][Executes("shadow_mask") =>
             \A p \in Pixels(win) : \A c \in 2..4 :
                gpuTex'[queue[gpuPc + 1].view].px[p][c]
                   = IF queue[gpuPc + 1].light = 0
                     THEN Baseline[c]
                     ELSE gpuTex[queue[gpuPc + 1].view].px[p][c]]_vars
    /\ [][PassBWritesAll]_vars

\* Pass A of the second light has run on a target that holds the first
\* light's blue: a shadowed pixel and the blue are both there.
C22_Witness ==
    /\ Len(lights) >= 2
    /\ submits > 0
    /\ gpuPc = 3
    /\ garbage # <<0, 0, 0, 0>>
    /\ \E p \in Pixels(win) :
          /\ gpuTex[queue[3].view].px[p][1] = 0
          /\ gpuTex[queue[3].view].px[p][3] > 0


\* ------------------------------------------------------------------ sizes
\* 4 * width * height as a u32, when it is below 2^32.
C23_Fits(width, height) == height = 0 \/ width <= (2^30 - 1) \div height
C23_Product(width, height) ==
    [hi |-> (width * height) \div (2^14), lo |-> ((width * height) % (2^14)) * 4]

\* C23 (as claimed): for every width and height the buffer size and the row
\* stride computed in u32 arithmetic are the mathematical products 4 * width
\* * height and 4 * width: nothing wraps, and nothing panics.
C23_NoWrap ==
    pc \in {"sized", "panicked"} =>
       /\ pc = "sized"
       /\ C23_Fits(args.width, args.height)
       /\ ret[1].output_buffer_size = C23_Product(args.width, args.height)
       /\ ret[1].bytes_per_row = C23_Product(args.width, 1)

\* Where the product fits, the model's u32 arithmetic is exact.
SizesExactWhenFits ==
    (pc = "sized" /\ C23_Fits(args.width, args.height)) =>
       /\ ret[1].output_buffer_size = C23_Product(args.width, args.height)
       /\ ret[1].bytes_per_row = C23_Product(args.width, 1)

====
